---- MODULE Spec2Model ----
(***************************************************************************)
(* Model of src/rules/trigger-builder.js: the fluent TriggerBuilder and    *)
(* the TriggerConf family (Channel, Cron, Item/MemberOf, Thing, System).   *)
(*                                                                         *)
(* JavaScript values are tagged records so that values of different JS     *)
(* types can be compared: t is the typeof-like tag, s/n/b the payload.     *)
(* Objects are references: a TriggerConf is the index of its record in     *)
(* the heap `confs`.                                                       *)
(***************************************************************************)
EXTENDS Integers, Sequences, FiniteSets, TLC

\* ---------------------------------------------------------------- bounds
MaxCalls == 4      \* API calls made in one rule-definition session
MaxConfs == 2      \* TriggerConf objects constructed in one session

\* ------------------------------------------------------------- JS values
Undefined == [t |-> "undefined", s |-> "", n |-> 0, b |-> FALSE]
Null == [t |-> "null", s |-> "", n |-> 0, b |-> FALSE]
Str(x) == [t |-> "string", s |-> x, n |-> 0, b |-> FALSE]
Num(x) == [t |-> "number", s |-> "", n |-> x, b |-> FALSE]
Bool(x) == [t |-> "boolean", s |-> "", n |-> 0, b |-> x]
\* a reference to an object of class cls; n tells instances apart
Obj(cls, id) == [t |-> "object", s |-> cls, n |-> id, b |-> FALSE]
\* a function value, named after the closure it is
Fn(name) == [t |-> "function", s |-> name, n |-> 0, b |-> FALSE]

\* the one TriggerBuilder of the session (`this` inside its methods)
TBRef == Obj("TriggerBuilder", 0)
\* reference to the TriggerConf stored at confs[i]
ConfRef(i) == Obj("TriggerConf", i)
\* an item object passed instead of a name: { name: x }
ItemObj(x) == Obj(x, -1)

\* JS ToBoolean
Truthy(v) ==
    CASE v.t = "undefined" -> FALSE
      [] v.t = "null" -> FALSE
      [] v.t = "boolean" -> v.b
      [] v.t = "string" -> v.s # ""
      [] v.t = "number" -> v.n # 0
      [] OTHER -> TRUE

\* result of running a method body on a conf: the conf afterwards, whether
\* the body threw, and the value returned (Undefined when it threw)
Returned(c, v) == [conf |-> c, raised |-> FALSE, ret |-> v]
Raised(c) == [conf |-> c, raised |-> TRUE, ret |-> Undefined]
\* `return this` inside a method of the conf stored at confs[i]
This(i) == ConfRef(i)

\* ---------------------------------------------------------- input domains
ChannelNames == {Str("a")}
CronExprs == {Str("0 0 * * * ?")}
ItemArgs == {Str("g"), ItemObj("g")}
ThingUIDs == {Str("t")}
Periods == {Str("SUNSET")}
ToValues == {Str("ON"), Str("")}
FromValues == {Str("OFF")}
EventNames == {Undefined, Str(""), Str("x")}
RawLevels == {Num(20)}

\* ------------------------------------------------------------- the state
VARIABLES
    confs,          \* heap of TriggerConf objects, in construction order
    currentTigger,  \* TriggerBuilder.currentTigger (sic)
    triggers,       \* the rule builder's trigger collection (addTrigger)
    last,           \* the last API call: what, on which conf, its outcome
    prev,           \* the API call before the last one: name, and whether it threw
    ncalls,         \* API calls made so far
    made,           \* history, per conf: its starter, and whether a kind-,
                    \* level- or event-setting method has run on it
    termLog         \* history: currentTigger at each _or/_then/_if run

vars == <<confs, currentTigger, triggers, last, prev, ncalls, made, termLog>>

\* a freshly allocated object: every property reads as undefined
BlankConf ==
    [cls |-> "", triggerBuilder |-> Undefined,
     channelName |-> Undefined, eventName |-> Undefined,
     timeStr |-> Undefined,
     type |-> Undefined, item_name |-> Undefined,
     thingUID |-> Undefined,
     op_type |-> Undefined, to_value |-> Undefined, from_value |-> Undefined,
     level |-> Undefined]

\* class TriggerConf: constructor(triggerBuilder)
TriggerConf(cls, triggerBuilder) ==
    [BlankConf EXCEPT !.cls = cls, !.triggerBuilder = triggerBuilder]

\* class ChannelTriggerConfig: constructor(channelName, triggerBuilder)
ChannelTriggerConfig(channelName, triggerBuilder) ==
    [TriggerConf("ChannelTriggerConfig", triggerBuilder)
        EXCEPT !.channelName = channelName]

\* class CronTriggerConfig: constructor(timeStr, triggerBuilder)
CronTriggerConfig(timeStr, triggerBuilder) ==
    [TriggerConf("CronTriggerConfig", triggerBuilder)
        EXCEPT !.timeStr = timeStr]

\* class ItemTriggerConfig: constructor(itemOrName, isGroup, triggerBuilder)
ItemTriggerConfig(itemOrName, isGroup, triggerBuilder) ==
    LET name == IF itemOrName.t # "string"
                THEN Str(itemOrName.s)      \* itemOrName = itemOrName.name
                ELSE itemOrName
    IN [TriggerConf("ItemTriggerConfig", triggerBuilder)
          EXCEPT !.type = IF Truthy(isGroup) THEN Str("memberOf")
                                             ELSE Str("item"),
                 !.item_name = name]

\* class ThingTriggerConfig: constructor(thingUID, triggerBuilder)
ThingTriggerConfig(thingUID, triggerBuilder) ==
    [TriggerConf("ThingTriggerConfig", triggerBuilder)
        EXCEPT !.thingUID = thingUID]

\* class SystemTriggerConfig: constructor(triggerBuilder)
SystemTriggerConfig(triggerBuilder) ==
    TriggerConf("SystemTriggerConfig", triggerBuilder)

\* ------------------------------------------- ItemTriggerConfig refinements
ItemTriggerConfig_to(c, i, value) ==
    Returned([c EXCEPT !.to_value = value], This(i))

\* variant: of stores the value where nothing reads it
ItemTriggerConfig_of_detached(c, i, value) == Returned(c, This(i))

\* this.of = this.to (constructor): the same function under another name
ItemTriggerConfig_of(c, i, value) == ItemTriggerConfig_to(c, i, value)

\* variant: the op_type guard is missing
ItemTriggerConfig_from_unguarded(c, i, value) ==
    Returned([c EXCEPT !.from_value = value], This(i))

ItemTriggerConfig_from(c, i, value) ==
    IF c.op_type # Str("changed")
    THEN Raised(c)         \* throw ".from(..) only available for .changed()"
    ELSE Returned([c EXCEPT !.from_value = value], This(i))

ItemTriggerConfig_toOff(c, i) == ItemTriggerConfig_to(c, i, Str("OFF"))

ItemTriggerConfig_toOn(c, i) == ItemTriggerConfig_to(c, i, Str("ON"))

\* variant: switching to receivedCommand clears the from-value
ItemTriggerConfig_receivedCommand_resets(c, i) ==
    Returned([c EXCEPT !.op_type = Str("receivedCommand"), !.from_value = Undefined],
             This(i))

ItemTriggerConfig_receivedCommand(c, i) ==
    Returned([c EXCEPT !.op_type = Str("receivedCommand")], This(i))

ItemTriggerConfig_receivedUpdate(c, i) ==
    Returned([c EXCEPT !.op_type = Str("receivedUpdate")], This(i))

ItemTriggerConfig_changed(c, i) ==
    Returned([c EXCEPT !.op_type = Str("changed")], This(i))

\* for(timespan): new TimingItemStateOperation(this, timespan).  The file
\* neither defines nor requires TimingItemStateOperation, so evaluating the
\* identifier throws a ReferenceError before anything is constructed.
ItemTriggerConfig_for(c, i, timespan) == Raised(c)

\* variant: looks at to_value instead of op_type
ItemTriggerConfig_complete_toValue(c) == c.to_value.t # "undefined"

ItemTriggerConfig_complete(c) == c.op_type.t # "undefined"

\* ---------------------------------------------------------- descriptions
\* A JS string is modelled as the sequence of its pieces; + and template
\* interpolation are concatenation.
\* String(v), as template literals and + apply it
ToStr(v) ==
    CASE v.t = "string" -> v.s
      [] v.t = "number" -> ToString(v.n)
      [] v.t = "boolean" -> IF v.b THEN "true" ELSE "false"
      [] v.t = "undefined" -> "undefined"
      [] v.t = "null" -> "null"
      [] OTHER -> "[object Object]"

Described(c, text) == [conf |-> c, raised |-> FALSE, ret |-> Str("<text>"), val |-> text]

\* ItemTriggerConfig.prototype.describe(compact)
ItemTriggerConfig_prototype_describe(c, compact) ==
    CASE c.op_type = Str("changed") ->
           IF compact
           THEN LET t0 == <<ToStr(c.from_value), "=>">>  \* from_value + '=>' || ''
                    t1 == IF Truthy(c.to_value)
                          THEN t0 \o <<ToStr(c.to_value)>>
                          ELSE t0
                IN Described(c, <<ToStr(c.item_name), " ">> \o t1 \o <<"/", "Delta">>)
           ELSE LET t0 == <<"changed">>
                    t1 == IF Truthy(c.from_value)
                          THEN t0 \o <<" from ", ToStr(c.from_value)>>
                          ELSE t0
                    t2 == IF Truthy(c.to_value)
                          THEN t1 \o <<" to ", ToStr(c.to_value)>>
                          ELSE t1
                IN Described(c, <<ToStr(c.item_name), " ">> \o t2)
      [] c.op_type = Str("receivedCommand") ->
           IF compact
           THEN Described(c, <<ToStr(c.item_name), "/", "Command">>)
           ELSE Described(c, <<ToStr(c.type), " ", ToStr(c.item_name), " ", "received command">>)
      [] c.op_type = Str("receivedUpdate") ->
           IF compact
           THEN Described(c, <<ToStr(c.item_name), "/", "Update">>)
           ELSE Described(c, <<ToStr(c.type), " ", ToStr(c.item_name), " ", "received update">>)
      [] OTHER -> [conf |-> c, raised |-> TRUE, ret |-> Undefined, val |-> <<>>]

\* the constructor's own property: this.describe = () => `${type} ${item_name} changed`
\* It shadows the prototype method on every instance.
ItemTriggerConfig_describe(c, compact) ==
    Described(c, <<ToStr(c.type), " ", ToStr(c.item_name), " ", "changed">>)

\* ------------------------------------------------- engine trigger records
\* triggers.<ctor>(args...) of ../triggers: recorded, not interpreted
EngineTrigger(ctor, args) == [ctor |-> ctor, args |-> args]

Converted(c, list) == [conf |-> c, raised |-> FALSE, ret |-> Obj("Array", Len(list)), val |-> list]
ConvertRaised(c) == [conf |-> c, raised |-> TRUE, ret |-> Undefined, val |-> <<>>]

\* variant: a kind outside the three is ignored, the list comes back empty
ItemTriggerConfig_toOHTriggers_ignores(c) ==
    LET group == c.type = Str("memberOf")
    IN CASE c.op_type = Str("changed") ->
              Converted(c, <<EngineTrigger(IF group THEN "GroupStateChangeTrigger" ELSE "ItemStateChangeTrigger",
                                           <<c.item_name, c.from_value, c.to_value>>)>>)
         [] c.op_type = Str("receivedCommand") ->
              Converted(c, <<EngineTrigger(IF group THEN "GroupCommandTrigger" ELSE "ItemCommandTrigger",
                                           <<c.item_name, c.to_value>>)>>)
         [] c.op_type = Str("receivedUpdate") ->
              Converted(c, <<EngineTrigger(IF group THEN "GroupStateUpdateTrigger" ELSE "ItemStateUpdateTrigger",
                                           <<c.item_name, c.to_value>>)>>)
         [] OTHER -> Converted(c, <<>>)

\* variant: the group test never matches, every conf converts as an item
ItemTriggerConfig_toOHTriggers_noGroup(c) ==
    CASE c.op_type = Str("changed") ->
           Converted(c, <<EngineTrigger("ItemStateChangeTrigger", <<c.item_name, c.from_value, c.to_value>>)>>)
      [] c.op_type = Str("receivedCommand") ->
           Converted(c, <<EngineTrigger("ItemCommandTrigger", <<c.item_name, c.to_value>>)>>)
      [] c.op_type = Str("receivedUpdate") ->
           Converted(c, <<EngineTrigger("ItemStateUpdateTrigger", <<c.item_name, c.to_value>>)>>)
      [] OTHER -> ConvertRaised(c)

ItemTriggerConfig_toOHTriggers(c) ==
    IF c.type = Str("memberOf")
    THEN CASE c.op_type = Str("changed") ->
                Converted(c, <<EngineTrigger("GroupStateChangeTrigger", <<c.item_name, c.from_value, c.to_value>>)>>)
           [] c.op_type = Str("receivedCommand") ->
                Converted(c, <<EngineTrigger("GroupCommandTrigger", <<c.item_name, c.to_value>>)>>)
           [] c.op_type = Str("receivedUpdate") ->
                Converted(c, <<EngineTrigger("GroupStateUpdateTrigger", <<c.item_name, c.to_value>>)>>)
           [] OTHER -> ConvertRaised(c)
    ELSE CASE c.op_type = Str("changed") ->
                Converted(c, <<EngineTrigger("ItemStateChangeTrigger", <<c.item_name, c.from_value, c.to_value>>)>>)
           [] c.op_type = Str("receivedCommand") ->
                Converted(c, <<EngineTrigger("ItemCommandTrigger", <<c.item_name, c.to_value>>)>>)
           [] c.op_type = Str("receivedUpdate") ->
                Converted(c, <<EngineTrigger("ItemStateUpdateTrigger", <<c.item_name, c.to_value>>)>>)
           [] OTHER -> ConvertRaised(c)

\* ------------------------------------------------------- the execute hook
\* an argument object: a function from its own keys to JS values
Get(args, key) == IF key \in DOMAIN args THEN args[key] ELSE Undefined

getReceivedCommand(args) == Get(args, "receivedCommand")

\* variant: { it, ...args }, a key of args wins over the injected one
SpreadWithIt_argsWin(args, it) ==
    [k \in DOMAIN args \cup {"it"} |-> IF k \in DOMAIN args THEN args[k] ELSE it]

\* { ...args, it }
SpreadWithIt(args, it) ==
    [k \in DOMAIN args \cup {"it"} |-> IF k = "it" THEN it ELSE args[k]]

\* the closure function (next, args) returned for receivedCommand, run with
\* a next that returns nextResult: the argument objects next is called
\* with, in order, and the value the closure returns
HookMiddleware(args, nextResult) ==
    LET it == getReceivedCommand(args)
    IN [calls |-> <<SpreadWithIt(args, it)>>, ret |-> nextResult]

\* variant: the hook is handed out for every received* kind
ItemTriggerConfig_executeHook_anyReceived(c) ==
    IF c.op_type \in {Str("receivedCommand"), Str("receivedUpdate")}
    THEN Fn("middleware") ELSE Null

\* _executeHook(): the middleware, or null
ItemTriggerConfig_executeHook(c) ==
    IF c.op_type = Str("receivedCommand") THEN Fn("middleware") ELSE Null

\* ------------------------------------------------- ChannelTriggerConfig
ChannelTriggerConfig_triggered(c, i, eventName) ==
    Returned([c EXCEPT !.eventName = IF Truthy(eventName) THEN eventName ELSE Str("")],
             This(i))

ChannelTriggerConfig_to(c, i, eventName) == ChannelTriggerConfig_triggered(c, i, eventName)

\* variant: tests the event name for truthiness
ChannelTriggerConfig_complete_truthy(c) == Truthy(c.eventName)

ChannelTriggerConfig_complete(c) == c.eventName.t # "undefined"

ChannelTriggerConfig_describe(c, compact) ==
    IF compact
    THEN Described(c, <<ToStr(c.channelName)>>
                      \o (IF Truthy(c.eventName) THEN <<":", ToStr(c.eventName)>> ELSE <<>>))
    ELSE Described(c, <<"matches channel ", "\"", ToStr(c.channelName), "\"">>
                      \o (IF Truthy(c.eventName) THEN <<"for event ", ToStr(c.eventName)>> ELSE <<>>))

ChannelTriggerConfig_toOHTriggers(c) ==
    Converted(c, <<EngineTrigger("ChannelEventTrigger", <<c.channelName, c.eventName>>)>>)

\* ---------------------------------------------------- CronTriggerConfig
CronTriggerConfig_complete(c) == TRUE

CronTriggerConfig_describe(c, compact) ==
    IF compact
    THEN Described(c, <<"cron_", ToStr(c.timeStr)>>)
    ELSE Described(c, <<"matches cron ", "\"", ToStr(c.timeStr), "\"">>)

CronTriggerConfig_toOHTriggers(c) ==
    Converted(c, <<EngineTrigger("GenericCronTrigger", <<c.timeStr>>)>>)

\* --------------------------------------------------- ThingTriggerConfig
ThingTriggerConfig_complete(c) == c.op_type.t # "undefined"

ThingTriggerConfig_describe(c, compact) ==
    CASE c.op_type = Str("changed") ->
           LET t0 == <<"changed">>
               t1 == IF Truthy(c.to_value)
                     THEN t0 \o <<" to ", ToStr(c.to_value)>>
                     ELSE t0
               t2 == IF Truthy(c.from_value)
                     THEN t1 \o <<" from ", ToStr(c.from_value)>>
                     ELSE t1
           IN Described(c, <<ToStr(c.thingUID), " ">> \o t2)
      [] c.op_type = Str("updated") ->
           IF compact
           THEN Described(c, <<ToStr(c.thingUID), "/", "updated">>)
           ELSE Described(c, <<"Thing", " ", ToStr(c.thingUID), " ", "received update">>)
      [] OTHER -> [conf |-> c, raised |-> TRUE, ret |-> Undefined, val |-> <<>>]

ThingTriggerConfig_changed(c, i) ==
    Returned([c EXCEPT !.op_type = Str("changed")], This(i))

ThingTriggerConfig_updated(c, i) ==
    Returned([c EXCEPT !.op_type = Str("updated")], This(i))

\* variant: from(value) without the test of the kind
ThingTriggerConfig_from_unguarded(c, i, value) ==
    Returned([c EXCEPT !.from_value = value], This(i))

ThingTriggerConfig_from(c, i, value) ==
    IF c.op_type # Str("changed")
    THEN Raised(c)         \* throw ".from(..) only available for .changed()"
    ELSE Returned([c EXCEPT !.from_value = value], This(i))

ThingTriggerConfig_to(c, i, value) ==
    Returned([c EXCEPT !.to_value = value], This(i))

\* variant: only 'changed' converts, 'updated' falls through to the throw
ThingTriggerConfig_toOHTriggers_changedOnly(c) ==
    CASE c.op_type = Str("changed") ->
           Converted(c, <<EngineTrigger("ThingStatusChangeTrigger", <<c.thingUID, c.to_value, c.from_value>>)>>)
      [] OTHER -> ConvertRaised(c)

ThingTriggerConfig_toOHTriggers(c) ==
    CASE c.op_type = Str("changed") ->
           Converted(c, <<EngineTrigger("ThingStatusChangeTrigger", <<c.thingUID, c.to_value, c.from_value>>)>>)
      [] c.op_type = Str("updated") ->
           Converted(c, <<EngineTrigger("ThingStatusUpdateTrigger", <<c.thingUID, c.to_value>>)>>)
      [] OTHER -> ConvertRaised(c)

\* -------------------------------------------------- SystemTriggerConfig
SystemTriggerConfig_complete(c) == c.level.t # "undefined"

SystemTriggerConfig_describe(c, compact) ==
    IF compact
    THEN Described(c, <<"system:", ToStr(c.level)>>)
    ELSE Described(c, <<"system level ", "\"", ToStr(c.level), "\"">>)

SystemTriggerConfig_toOHTriggers(c) ==
    Converted(c, <<EngineTrigger("SystemStartlevelTrigger", <<c.level>>)>>)

SystemTriggerConfig_startLevel(c, i, level) ==
    Returned([c EXCEPT !.level = level], This(i))

SystemTriggerConfig_rulesLoaded(c, i) == SystemTriggerConfig_startLevel(c, i, Num(40))

SystemTriggerConfig_ruleEngineStarted(c, i) == SystemTriggerConfig_startLevel(c, i, Num(50))

SystemTriggerConfig_userInterfacesStarted(c, i) == SystemTriggerConfig_startLevel(c, i, Num(70))

SystemTriggerConfig_thingsInitialized(c, i) == SystemTriggerConfig_startLevel(c, i, Num(80))

\* variant: the level of thingsInitialized
SystemTriggerConfig_startupComplete_80(c, i) == SystemTriggerConfig_startLevel(c, i, Num(80))

SystemTriggerConfig_startupComplete(c, i) == SystemTriggerConfig_startLevel(c, i, Num(100))

\* ------------------------------------------------------- TriggerBuilder
\* builder.addTrigger(trigger): the owning rule builder's collection
addTrigger(collection, trigger) == Append(collection, trigger)

\* variant: the starter registers the new trigger right away
TriggerBuilder_setTrigger_registers(collection, trigger) ==
    [currentTigger |-> trigger, triggers |-> addTrigger(collection, trigger),
     ret |-> trigger]

\* _setTrigger(trigger): stores the conf as current and returns it
TriggerBuilder_setTrigger(collection, trigger) ==
    [currentTigger |-> trigger, triggers |-> collection, ret |-> trigger]

\* variant: the trigger is put in front of the collection
TriggerBuilder_or_front(collection, current) ==
    [triggers |-> <<current>> \o collection, ret |-> TBRef]

\* _or(): registers the current trigger, returns the builder
TriggerBuilder_or(collection, current) ==
    [triggers |-> addTrigger(collection, current), ret |-> TBRef]

\* variant: the OperationBuilder is made without this._or()
TriggerBuilder_then_skipsOr(collection, current) ==
    [triggers |-> collection, ret |-> Obj("OperationBuilder", 0)]

\* _then(fn): this._or(), then a new OperationBuilder(this.builder, fn)
TriggerBuilder_then(collection, current) ==
    [triggers |-> TriggerBuilder_or(collection, current).triggers,
     ret |-> Obj("OperationBuilder", 0)]

\* variant: this._or() runs twice
TriggerBuilder_if_twice(collection, current) ==
    [triggers |-> TriggerBuilder_or(TriggerBuilder_or(collection, current).triggers,
                                    current).triggers,
     ret |-> Obj("ConditionBuilder", 0)]

\* _if(fn): this._or(), then a new ConditionBuilder(this.builder, fn)
TriggerBuilder_if(collection, current) ==
    [triggers |-> TriggerBuilder_or(collection, current).triggers,
     ret |-> Obj("ConditionBuilder", 0)]

\* ----------------------------------------------------------------- steps
\* arguments the rule engine hands to a middleware
HookArgs ==
    { [receivedCommand |-> Str("ON")],
      [receivedCommand |-> Str("ON"), it |-> Str("mine")],
      [itemName |-> Str("g")] }

\* what the caller's next(..) returns
NextResult == Str("next-result")

Call(op, self, raised, ret, val, arg) ==
    /\ last' = [op |-> op, self |-> self, raised |-> raised, ret |-> ret,
                val |-> val, arg |-> arg]
    /\ prev' = [op |-> last.op, raised |-> last.raised]
    /\ ncalls' = ncalls + 1

CanCall == ncalls < MaxCalls

\* a starter: the new conf is allocated, stored as current and returned
Start(op, conf, arg) ==
    /\ CanCall
    /\ Len(confs) < MaxConfs
    /\ LET ref == ConfRef(Len(confs) + 1)
           r == TriggerBuilder_setTrigger(triggers, ref)
       IN /\ confs' = Append(confs, conf)
          /\ made' = Append(made, [by |-> op, kind |-> op = "timeOfDay", lvl |-> FALSE, evt |-> FALSE])
          /\ currentTigger' = r.currentTigger
          /\ triggers' = r.triggers
          /\ Call(op, 0, FALSE, r.ret, <<>>, arg)
    /\ UNCHANGED termLog

channel == \E s \in ChannelNames : Start("channel", ChannelTriggerConfig(s, TBRef), <<s>>)

cron == \E s \in CronExprs : Start("cron", CronTriggerConfig(s, TBRef), <<s>>)

item == \E s \in ItemArgs : Start("item", ItemTriggerConfig(s, Bool(FALSE), TBRef), <<s>>)

memberOf == \E s \in ItemArgs : Start("memberOf", ItemTriggerConfig(s, Bool(TRUE), TBRef), <<s>>)

thing == \E s \in ThingUIDs : Start("thing", ThingTriggerConfig(s, TBRef), <<s>>)

\* timeOfDay(s): new ItemTriggerConfig('vTimeOfDay', this).changed().to(s)
\* The constructor is called with two arguments: `this` lands in isGroup
\* and triggerBuilder is left undefined.
TimeOfDayConf(s) ==
    LET c0 == ItemTriggerConfig(Str("vTimeOfDay"), TBRef, Undefined)
        c1 == ItemTriggerConfig_changed(c0, 0).conf
    IN ItemTriggerConfig_to(c1, 0, s).conf

timeOfDay == \E s \in Periods : Start("timeOfDay", TimeOfDayConf(s), <<s>>)

system == Start("system", SystemTriggerConfig(TBRef), <<>>)

\* a method of the conf at confs[i] that touches nothing but that conf
KindOps == {"changed", "receivedCommand", "receivedUpdate", "updated"}
LevelOps == {"startLevel", "rulesLoaded", "ruleEngineStarted",
             "userInterfacesStarted", "thingsInitialized", "startupComplete"}
EventOps == {"triggered", "to"}

Method(op, i, r, arg) ==
    /\ CanCall
    /\ confs' = [confs EXCEPT ![i] = r.conf]
    /\ made' = [made EXCEPT ![i].kind = @ \/ op \in KindOps,
                            ![i].lvl = @ \/ op \in LevelOps,
                            ![i].evt = @ \/ (op \in EventOps /\
                                             confs[i].cls = "ChannelTriggerConfig")]
    /\ Call(op, i, r.raised, r.ret, <<>>, arg)
    /\ UNCHANGED <<currentTigger, triggers, termLog>>

\* a method that also yields a text or a list
Query(op, i, r, arg) ==
    /\ CanCall
    /\ confs' = [confs EXCEPT ![i] = r.conf]
    /\ Call(op, i, r.raised, r.ret, r.val, arg)
    /\ UNCHANGED <<currentTigger, triggers, made, termLog>>

Confs == 1..Len(confs)
Items == {i \in Confs : confs[i].cls = "ItemTriggerConfig"}
Channels == {i \in Confs : confs[i].cls = "ChannelTriggerConfig"}
Crons == {i \in Confs : confs[i].cls = "CronTriggerConfig"}
Things == {i \in Confs : confs[i].cls = "ThingTriggerConfig"}
Systems == {i \in Confs : confs[i].cls = "SystemTriggerConfig"}

Item_to == \E i \in Items, v \in ToValues : Method("to", i, ItemTriggerConfig_to(confs[i], i, v), <<v>>)

Item_of == \E i \in Items, v \in ToValues : Method("of", i, ItemTriggerConfig_of(confs[i], i, v), <<v>>)

Item_from == \E i \in Items, v \in FromValues : Method("from", i, ItemTriggerConfig_from(confs[i], i, v), <<v>>)

Item_toOff == \E i \in Items : Method("toOff", i, ItemTriggerConfig_toOff(confs[i], i), <<>>)

Item_toOn == \E i \in Items : Method("toOn", i, ItemTriggerConfig_toOn(confs[i], i), <<>>)

Item_receivedCommand == \E i \in Items : Method("receivedCommand", i, ItemTriggerConfig_receivedCommand(confs[i], i), <<>>)

Item_receivedUpdate == \E i \in Items : Method("receivedUpdate", i, ItemTriggerConfig_receivedUpdate(confs[i], i), <<>>)

Item_changed == \E i \in Items : Method("changed", i, ItemTriggerConfig_changed(confs[i], i), <<>>)

Item_for == \E i \in Items : Method("for", i, ItemTriggerConfig_for(confs[i], i, Num(5)), <<>>)

Channel_triggered == \E i \in Channels, e \in EventNames : Method("triggered", i, ChannelTriggerConfig_triggered(confs[i], i, e), <<e>>)

Channel_to == \E i \in Channels, e \in EventNames : Method("to", i, ChannelTriggerConfig_to(confs[i], i, e), <<e>>)

Thing_changed == \E i \in Things : Method("changed", i, ThingTriggerConfig_changed(confs[i], i), <<>>)

Thing_updated == \E i \in Things : Method("updated", i, ThingTriggerConfig_updated(confs[i], i), <<>>)

Thing_from == \E i \in Things, v \in FromValues : Method("from", i, ThingTriggerConfig_from(confs[i], i, v), <<v>>)

Thing_to == \E i \in Things, v \in ToValues : Method("to", i, ThingTriggerConfig_to(confs[i], i, v), <<v>>)

System_startLevel == \E i \in Systems, n \in RawLevels : Method("startLevel", i, SystemTriggerConfig_startLevel(confs[i], i, n), <<n>>)

System_rulesLoaded == \E i \in Systems : Method("rulesLoaded", i, SystemTriggerConfig_rulesLoaded(confs[i], i), <<>>)

System_ruleEngineStarted == \E i \in Systems : Method("ruleEngineStarted", i, SystemTriggerConfig_ruleEngineStarted(confs[i], i), <<>>)

System_userInterfacesStarted == \E i \in Systems : Method("userInterfacesStarted", i, SystemTriggerConfig_userInterfacesStarted(confs[i], i), <<>>)

System_thingsInitialized == \E i \in Systems : Method("thingsInitialized", i, SystemTriggerConfig_thingsInitialized(confs[i], i), <<>>)

System_startupComplete == \E i \in Systems : Method("startupComplete", i, SystemTriggerConfig_startupComplete(confs[i], i), <<>>)

\* conf._complete(), dispatched on the conf's class
Complete(c) ==
    CASE c.cls = "ChannelTriggerConfig" -> ChannelTriggerConfig_complete(c)
      [] c.cls = "CronTriggerConfig" -> CronTriggerConfig_complete(c)
      [] c.cls = "ItemTriggerConfig" -> ItemTriggerConfig_complete(c)
      [] c.cls = "ThingTriggerConfig" -> ThingTriggerConfig_complete(c)
      [] c.cls = "SystemTriggerConfig" -> SystemTriggerConfig_complete(c)

\* conf.describe(compact): own property first, then the prototype
Describe(c, compact) ==
    CASE c.cls = "ChannelTriggerConfig" -> ChannelTriggerConfig_describe(c, compact)
      [] c.cls = "CronTriggerConfig" -> CronTriggerConfig_describe(c, compact)
      [] c.cls = "ItemTriggerConfig" -> ItemTriggerConfig_describe(c, compact)
      [] c.cls = "ThingTriggerConfig" -> ThingTriggerConfig_describe(c, compact)
      [] c.cls = "SystemTriggerConfig" -> SystemTriggerConfig_describe(c, compact)

\* conf._toOHTriggers()
ToOHTriggers(c) ==
    CASE c.cls = "ChannelTriggerConfig" -> ChannelTriggerConfig_toOHTriggers(c)
      [] c.cls = "CronTriggerConfig" -> CronTriggerConfig_toOHTriggers(c)
      [] c.cls = "ItemTriggerConfig" -> ItemTriggerConfig_toOHTriggers(c)
      [] c.cls = "ThingTriggerConfig" -> ThingTriggerConfig_toOHTriggers(c)
      [] c.cls = "SystemTriggerConfig" -> SystemTriggerConfig_toOHTriggers(c)

complete == \E i \in Confs : Method("_complete", i, Returned(confs[i], Bool(Complete(confs[i]))), <<>>)

describe == \E i \in Confs, compact \in BOOLEAN : Query("describe", i, Describe(confs[i], compact), <<Bool(compact)>>)

toOHTriggers == \E i \in Confs : Query("_toOHTriggers", i, ToOHTriggers(confs[i]), <<>>)

executeHook == \E i \in Items : Method("_executeHook", i, Returned(confs[i], ItemTriggerConfig_executeHook(confs[i])), <<>>)

\* the rule engine runs the hook of an Item conf: hook = conf._executeHook();
\* if it is a middleware, hook(next, args) with a next that records the
\* argument objects it receives and returns NextResult
runHook ==
    \E i \in Items, args \in HookArgs :
        /\ CanCall
        /\ ItemTriggerConfig_executeHook(confs[i]) # Null
        /\ LET r == HookMiddleware(args, NextResult)
           IN Call("middleware", i, FALSE, r.ret, r.calls, args)
        /\ UNCHANGED <<confs, currentTigger, triggers, made, termLog>>

\* conf.or() / conf.then(fn) / conf.if(fn) on any conf the caller holds:
\* this.triggerBuilder._or() etc.  With triggerBuilder undefined the
\* property access throws a TypeError and nothing else happens.
\* variant: the delegation rejects a conf that is not complete
TriggerConf_delegateThrows_validating(c) ==
    c.triggerBuilder.t = "undefined" \/ ~Complete(c)

\* this.triggerBuilder._or(): a TypeError when triggerBuilder is undefined,
\* and nothing else is looked at
TriggerConf_delegateThrows(c) == c.triggerBuilder.t = "undefined"

Terminal(op, i, r) ==
    /\ CanCall
    /\ IF TriggerConf_delegateThrows(confs[i])
       THEN /\ Call(op, i, TRUE, Undefined, <<>>, <<>>)
            /\ UNCHANGED <<triggers, termLog>>
       ELSE /\ triggers' = r.triggers
            /\ termLog' = Append(termLog, currentTigger)
            /\ Call(op, i, FALSE, r.ret, <<>>, <<>>)
    /\ UNCHANGED <<confs, currentTigger, made>>

or == \E i \in Confs : Terminal("or", i, TriggerBuilder_or(triggers, currentTigger))

then == \E i \in Confs : Terminal("then", i, TriggerBuilder_then(triggers, currentTigger))

if == \E i \in Confs : Terminal("if", i, TriggerBuilder_if(triggers, currentTigger))

Init ==
    /\ confs = <<>>
    /\ currentTigger = Undefined
    /\ triggers = <<>>
    /\ last = [op |-> "new", self |-> 0, raised |-> FALSE, ret |-> TBRef,
               val |-> <<>>, arg |-> <<>>]
    /\ prev = [op |-> "", raised |-> FALSE]
    /\ ncalls = 0
    /\ made = <<>>
    /\ termLog = <<>>

Next ==
    \/ channel
    \/ cron
    \/ item
    \/ memberOf
    \/ thing
    \/ timeOfDay
    \/ system
    \/ Item_to
    \/ Item_of
    \/ Item_from
    \/ Item_toOff
    \/ Item_toOn
    \/ Item_receivedCommand
    \/ Item_receivedUpdate
    \/ Item_changed
    \/ Item_for
    \/ Channel_triggered
    \/ Channel_to
    \/ Thing_changed
    \/ Thing_updated
    \/ Thing_from
    \/ Thing_to
    \/ System_startLevel
    \/ System_rulesLoaded
    \/ System_ruleEngineStarted
    \/ System_userInterfacesStarted
    \/ System_thingsInitialized
    \/ System_startupComplete
    \/ complete
    \/ describe
    \/ toOHTriggers
    \/ executeHook
    \/ runHook
    \/ or
    \/ then
    \/ if

Spec == Init /\ [][Next]_vars

\* ================================================================ claims
Starters == {"channel", "cron", "item", "memberOf", "thing", "timeOfDay", "system"}
Terminals == {"or", "then", "if"}

\* C1: the rule builder's collection lists the registered triggers in the
\* order of the terminal calls: its i-th entry is the trigger the i-th
\* _or/_then/_if run registered.
C1_RegistrationOrder == triggers = termLog

C1_Witness ==
    /\ Len(triggers) = 2
    /\ triggers[1] = ConfRef(1)
    /\ triggers[2] = ConfRef(2)

\* the state right after a chain starterA(..)[.refinement(..)].or().starterB(..)
\* that began with an empty collection
C2_ChainDone ==
    /\ last.op \in Starters
    /\ prev.op = "or"
    /\ Len(confs) = 2
    /\ Len(termLog) <= 1

\* C2 as stated: after the chain the collection has length 2 and holds A's
\* conf followed by B's conf.
C2_Original == C2_ChainDone => triggers = <<ConfRef(1), ConfRef(2)>>

\* C2 amended: after the chain the collection holds A's conf only and B's
\* conf is the builder's current trigger, not yet registered; when or()
\* threw (A made by timeOfDay) the collection is still empty.
C2_ChainRegistersOnlyA ==
    C2_ChainDone =>
        /\ currentTigger = ConfRef(2)
        /\ triggers = IF prev.raised THEN <<>> ELSE <<ConfRef(1)>>

C2_Witness ==
    /\ C2_ChainDone
    /\ confs[1].cls = "ChannelTriggerConfig"
    /\ confs[1].eventName = Str("x")
    /\ confs[2].cls = "CronTriggerConfig"
    /\ triggers = <<ConfRef(1)>>

\* C3: from(value) on an Item/MemberOf or Thing conf throws when the kind is
\* not 'changed' and then leaves from-value, to-value and kind as they
\* were; with kind 'changed' it stores the value and returns the conf.
C3_FromOnlyAfterChanged ==
    [][last'.op = "from" =>
        LET i == last'.self
        IN IF confs[i].op_type # Str("changed")
           THEN /\ last'.raised
                /\ confs'[i].from_value = confs[i].from_value
                /\ confs'[i].to_value = confs[i].to_value
                /\ confs'[i].op_type = confs[i].op_type
           ELSE /\ ~last'.raised
                /\ confs'[i].from_value = last'.arg[1]
                /\ confs'[i].to_value = confs[i].to_value
                /\ confs'[i].op_type = confs[i].op_type
                /\ last'.ret = ConfRef(i)]_vars

C3_Witness ==
    /\ last.op = "from"
    /\ last.raised
    /\ confs[last.self].op_type = Str("receivedCommand")
    /\ confs[last.self].from_value = Undefined

\* C4: timeOfDay(period) yields what item('vTimeOfDay').changed().to(period)
\* yields: a single-item conf of kind 'changed' with to-value period, held
\* as current, with a back-reference to the TriggerBuilder.
C4_TimeOfDayIsItemChangedTo ==
    last.op = "timeOfDay" =>
        LET c == confs[last.ret.n]
        IN /\ c.cls = "ItemTriggerConfig"
           /\ c.item_name = Str("vTimeOfDay")
           /\ c.type = Str("item")
           /\ c.op_type = Str("changed")
           /\ c.to_value = last.arg[1]
           /\ c.from_value = Undefined
           /\ c.triggerBuilder = TBRef
           /\ currentTigger = last.ret

\* C5 as stated: the middleware calls next once with every key of args at
\* its original value plus a variable equal to args.receivedCommand, and
\* returns next's result.
C5_Original ==
    last.op = "middleware" =>
        /\ Len(last.val) = 1
        /\ \A k \in DOMAIN last.arg :
              k \in DOMAIN last.val[1] /\ last.val[1][k] = last.arg[k]
        /\ "it" \in DOMAIN last.val[1]
        /\ last.val[1]["it"] = Get(last.arg, "receivedCommand")
        /\ last.ret = NextResult

\* C5 amended: the middleware calls next once with the keys of args and the
\* key `it`; `it` equals args.receivedCommand (replacing an `it` that args
\* already had), every other key has its original value; it returns next's
\* result.
C5_HookInjectsIt ==
    last.op = "middleware" =>
        /\ Len(last.val) = 1
        /\ DOMAIN last.val[1] = DOMAIN last.arg \cup {"it"}
        /\ \A k \in DOMAIN last.arg \ {"it"} : last.val[1][k] = last.arg[k]
        /\ last.val[1]["it"] = Get(last.arg, "receivedCommand")
        /\ last.ret = NextResult

C5_Witness ==
    /\ last.op = "middleware"
    /\ "it" \in DOMAIN last.arg
    /\ last.val[1]["it"] = Str("ON")

\* C6: _executeHook() on an Item/MemberOf conf returns a middleware exactly
\* when the kind is receivedCommand, and null otherwise.
C6_HookIffReceivedCommand ==
    last.op = "_executeHook" =>
        /\ ~last.raised
        /\ IF confs[last.self].op_type = Str("receivedCommand")
           THEN last.ret.t = "function"
           ELSE last.ret = Null

C6_Witness ==
    /\ last.op = "_executeHook"
    /\ confs[last.self].op_type = Str("receivedUpdate")
    /\ last.ret = Null

\* the engine constructor the claim expects for a group flag and a kind
C7_Ctor(group, kind) ==
    CASE kind = Str("changed") ->
           IF group THEN "GroupStateChangeTrigger" ELSE "ItemStateChangeTrigger"
      [] kind = Str("receivedCommand") ->
           IF group THEN "GroupCommandTrigger" ELSE "ItemCommandTrigger"
      [] kind = Str("receivedUpdate") ->
           IF group THEN "GroupStateUpdateTrigger" ELSE "ItemStateUpdateTrigger"

\* C7: _toOHTriggers() on a conf made by memberOf uses the Group
\* constructors and on a conf made by item the single-item ones, for each
\* kind, passing the name and the from/to values.
C7_ConstructorByGroupAndKind ==
    (/\ last.op = "_toOHTriggers"
     /\ last.self \in Items
     /\ made[last.self].by \in {"item", "memberOf"}
     /\ confs[last.self].op_type # Undefined) =>
        LET c == confs[last.self]
            group == made[last.self].by = "memberOf"
        IN /\ ~last.raised
           /\ last.val =
                <<EngineTrigger(C7_Ctor(group, c.op_type),
                     IF c.op_type = Str("changed")
                     THEN <<c.item_name, c.from_value, c.to_value>>
                     ELSE <<c.item_name, c.to_value>>)>>

C7_Witness ==
    /\ last.op = "_toOHTriggers"
    /\ last.self \in Items
    /\ made[last.self].by = "memberOf"
    /\ confs[last.self].op_type = Str("receivedUpdate")
    /\ last.val[1].ctor = "GroupStateUpdateTrigger"

\* C8: right after its starter a Channel, Item/MemberOf, Thing or System
\* conf is incomplete and a Cron conf complete; an Item or Thing conf is
\* complete exactly when a kind method has run on it, a System conf exactly
\* when a level method has.
C8_CompleteAfterConstruction ==
    /\ last.op \in {"channel", "item", "memberOf", "thing", "system"} =>
          ~Complete(confs[last.ret.n])
    /\ last.op = "cron" => Complete(confs[last.ret.n])
    /\ \A i \in Items \cup Things : Complete(confs[i]) <=> made[i].kind
    /\ \A i \in Systems : Complete(confs[i]) <=> made[i].lvl

C8_Witness ==
    /\ last.op = "to"
    /\ last.self \in Items
    /\ made[last.self].by = "item"
    /\ ~made[last.self].kind
    /\ ~Complete(confs[last.self])

\* C9: each run of _or, _then or _if appends exactly the builder's current
\* trigger, so the collection is as long as the number of such runs; _or
\* returns the TriggerBuilder.
C9_TerminalAppendsCurrent ==
    /\ [](/\ Len(triggers) = Len(termLog)
          /\ (last.op = "or" /\ ~last.raised => last.ret = TBRef))
    /\ [][last'.op \in Terminals /\ ~last'.raised =>
            triggers' = Append(triggers, currentTigger)]_vars

C9_Witness ==
    /\ last.op = "if"
    /\ ~last.raised
    /\ prev.op = "or"
    /\ Len(triggers) = 2

\* C10: the collection changes in _or/_then/_if only: no starter, no
\* refinement and no query changes it.
C10_OnlyTerminalsRegister ==
    [][triggers' # triggers => last'.op \in Terminals]_vars

C10_Witness ==
    /\ Len(triggers) = 1
    /\ prev.op \in Starters
    /\ last.op \in {"describe", "_toOHTriggers", "_complete", "toOn"}

\* C11 as stated: or/then/if on a conf that is not complete throws nothing
\* and appends that conf to the collection.
C11_Original ==
    [][last'.op \in Terminals /\ ~Complete(confs[last'.self]) =>
          /\ ~last'.raised
          /\ triggers' = Append(triggers, ConfRef(last'.self))]_vars

\* C11 amended: or/then/if on a conf that is not complete throws nothing and
\* appends the builder's current trigger, complete or not (the conf itself
\* when it is still the current one); an Item/MemberOf or Thing conf that
\* is not complete throws when _toOHTriggers() is called on it later.
C11_NoValidationAtRegistration ==
    /\ [][last'.op \in Terminals /\ ~Complete(confs[last'.self]) =>
            /\ ~last'.raised
            /\ triggers' = Append(triggers, currentTigger)]_vars
    /\ [](last.op = "_toOHTriggers" /\ last.self \in Items \cup Things
            /\ ~Complete(confs[last.self]) => last.raised)

C11_Witness ==
    /\ last.op = "or"
    /\ ~last.raised
    /\ ~Complete(confs[last.self])
    /\ currentTigger = ConfRef(last.self)
    /\ triggers = <<ConfRef(last.self)>>

\* the entries of a collection
Range(seq) == {seq[k] : k \in 1..Len(seq)}

\* C12 as stated: when a starter replaces the current trigger, the trigger
\* replaced has been registered already.
C12_Original ==
    [][last'.op \in Starters /\ currentTigger # Undefined =>
          currentTigger \in Range(triggers)]_vars

\* C12 amended: a starter replaces the current trigger whether or not it
\* was registered, and registers nothing itself; a conf that is no longer
\* current and is not in the collection never enters it.
C12_ReplacedUnregisteredIsDropped ==
    /\ [][last'.op \in Starters =>
            /\ currentTigger' = last'.ret
            /\ currentTigger' # currentTigger
            /\ triggers' = triggers]_vars
    /\ [][\A i \in Confs :
            currentTigger # ConfRef(i) /\ ConfRef(i) \notin Range(triggers) =>
                ConfRef(i) \notin Range(triggers')]_vars

C12_Witness ==
    /\ Len(confs) = 2
    /\ prev.op \in Starters
    /\ last.op \in Terminals
    /\ last.self = 1
    /\ triggers = <<ConfRef(2)>>

\* a describe(compact) call on a conf made by item or memberOf, of the given
\* kind, has just returned or thrown
ItemDescribed(kind, compact) ==
    /\ last.op = "describe"
    /\ last.self \in Items
    /\ made[last.self].by \in {"item", "memberOf"}
    /\ confs[last.self].op_type = Str(kind)
    /\ last.arg = <<Bool(compact)>>

\* C13: for an Item/MemberOf conf of kind 'changed', describe(false)
\* contains the word "changed" and describe(true) contains the delta marker.
C13_ChangedDescriptions ==
    /\ ItemDescribed("changed", FALSE) =>
          ~last.raised /\ "changed" \in Range(last.val)
    /\ ItemDescribed("changed", TRUE) =>
          ~last.raised /\ "Delta" \in Range(last.val)

\* C14: the compact description of an Item/MemberOf conf of kind 'changed'
\* has an arrow only when a from-value or a to-value is set; with neither
\* set it is the item name and the bare delta marker, without an arrow and
\* without a placeholder for the missing values.
C14_CompactArrowOnlyWithValues ==
    ItemDescribed("changed", TRUE) =>
        LET c == confs[last.self]
            unset == c.from_value = Undefined /\ c.to_value = Undefined
        IN /\ ~last.raised
           /\ "=>" \in Range(last.val) => ~unset
           /\ unset =>
                 /\ last.val[1] = ToStr(c.item_name)
                 /\ "Delta" \in Range(last.val)
                 /\ "=>" \notin Range(last.val)
                 /\ "undefined" \notin Range(last.val)

\* C15: describe of an Item/MemberOf conf follows its kind: receivedCommand
\* gives name/Command (compact) or "received command" (verbose),
\* receivedUpdate gives name/Update or "received update"; neither says
\* "changed".
C15_DescribeFollowsKind ==
    /\ ItemDescribed("receivedCommand", TRUE) =>
          last.val = <<ToStr(confs[last.self].item_name), "/", "Command">>
    /\ ItemDescribed("receivedCommand", FALSE) =>
          "received command" \in Range(last.val) /\ "changed" \notin Range(last.val)
    /\ ItemDescribed("receivedUpdate", TRUE) =>
          last.val = <<ToStr(confs[last.self].item_name), "/", "Update">>
    /\ ItemDescribed("receivedUpdate", FALSE) =>
          "received update" \in Range(last.val) /\ "changed" \notin Range(last.val)

\* the level the claim gives for each level-setting method
C16_Level(op, arg) ==
    CASE op = "rulesLoaded" -> Num(40)
      [] op = "ruleEngineStarted" -> Num(50)
      [] op = "userInterfacesStarted" -> Num(70)
      [] op = "thingsInitialized" -> Num(80)
      [] op = "startupComplete" -> Num(100)
      [] op = "startLevel" -> arg[1]

\* C16: the named level methods set the level to 40, 50, 70, 80 and 100,
\* startLevel(n) sets it to n, nothing else changes it, and conversion
\* hands the current level to the system-startlevel constructor.
C16_SystemLevels ==
    /\ [][last'.op \in LevelOps =>
            /\ ~last'.raised
            /\ confs'[last'.self].level = C16_Level(last'.op, last'.arg)
            /\ last'.ret = ConfRef(last'.self)]_vars
    /\ [][\A i \in Confs : confs'[i].level # confs[i].level =>
            last'.op \in LevelOps /\ last'.self = i]_vars
    /\ [](last.op = "_toOHTriggers" /\ last.self \in Systems =>
            /\ ~last.raised
            /\ last.val = <<EngineTrigger("SystemStartlevelTrigger",
                                          <<confs[last.self].level>>)>>)

C16_Witness ==
    /\ last.op = "_toOHTriggers"
    /\ last.self \in Systems
    /\ Len(confs) = 1
    /\ prev.op = "startupComplete"
    /\ last.val[1].args = <<Num(100)>>

\* C17: a Channel conf is complete exactly when triggered()/to() has been
\* called on it; an empty or missing event name is stored as the empty
\* string and makes it complete; once complete it stays complete.
C17_ChannelCompleteness ==
    /\ [](\A i \in Channels : Complete(confs[i]) <=> made[i].evt)
    /\ [][last'.op \in EventOps /\ last'.self \in Channels =>
            /\ ~last'.raised
            /\ confs'[last'.self].eventName =
                  IF last'.arg[1] \in {Undefined, Str("")} THEN Str("") ELSE last'.arg[1]
            /\ Complete(confs'[last'.self])]_vars
    /\ [][\A i \in Channels : Complete(confs[i]) => Complete(confs'[i])]_vars

C17_Witness ==
    /\ last.op = "triggered"
    /\ last.self \in Channels
    /\ last.arg = <<Undefined>>
    /\ confs[last.self].eventName = Str("")
    /\ Complete(confs[last.self])

\* C18: on an Item/MemberOf conf of(value) does what to(value) does: both
\* set the to-value, leave everything else of the conf as it was, never
\* throw and return the conf, so the conf and its conversion come out the
\* same whichever of the two is called.
C18_OfIsTo ==
    [][last'.op \in {"of", "to"} /\ last'.self \in Items =>
          LET i == last'.self
          IN /\ ~last'.raised
             /\ last'.ret = ConfRef(i)
             /\ confs'[i] = [confs[i] EXCEPT !.to_value = last'.arg[1]]
             /\ \A j \in Confs \ {i} : confs'[j] = confs[j]]_vars

C18_Witness ==
    /\ last.op = "of"
    /\ prev.op = "receivedCommand"
    /\ Len(confs) = 1
    /\ confs[1].op_type = Str("receivedCommand")
    /\ confs[1].to_value = Str("ON")

\* C19: for(timespan) on an Item/MemberOf conf returns a timing-qualified
\* operation object without throwing, registers nothing and leaves the
\* conf as it was.
C19_ForWrapsConf ==
    [][last'.op = "for" =>
          /\ ~last'.raised
          /\ last'.ret.t = "object"
          /\ triggers' = triggers
          /\ confs' = confs]_vars

\* C20: a kind-setting call makes its kind the conf's kind whatever the kind
\* was, never throws and leaves to-value and from-value as they were; the
\* kind of an existing conf changes in no other way.
C20_LastKindWins ==
    /\ [][last'.op \in KindOps =>
            LET i == last'.self
            IN /\ ~last'.raised
               /\ last'.ret = ConfRef(i)
               /\ confs'[i].op_type = Str(last'.op)
               /\ confs'[i].to_value = confs[i].to_value
               /\ confs'[i].from_value = confs[i].from_value]_vars
    /\ [][\A i \in Confs : confs'[i].op_type # confs[i].op_type =>
            last'.op \in KindOps /\ last'.self = i]_vars

C20_Witness ==
    /\ last.op = "receivedCommand"
    /\ prev.op = "from"
    /\ ~prev.raised
    /\ Len(confs) = 1
    /\ confs[1].op_type = Str("receivedCommand")
    /\ confs[1].from_value = Str("OFF")

\* C21: on a conf of any of the five kinds for which _complete() is true,
\* _toOHTriggers() returns, without throwing, a list of exactly one engine
\* trigger record, and the call leaves every conf as it was.
C21_CompleteConvertsToOne ==
    /\ [](last.op = "_toOHTriggers" /\ Complete(confs[last.self]) =>
            /\ ~last.raised
            /\ Len(last.val) = 1
            /\ last.val[1].ctor \in {"ChannelEventTrigger", "GenericCronTrigger",
                   "ItemStateChangeTrigger", "ItemCommandTrigger", "ItemStateUpdateTrigger",
                   "GroupStateChangeTrigger", "GroupCommandTrigger", "GroupStateUpdateTrigger",
                   "ThingStatusChangeTrigger", "ThingStatusUpdateTrigger",
                   "SystemStartlevelTrigger"})
    /\ [][last'.op = "_toOHTriggers" =>
            confs' = confs /\ triggers' = triggers /\ currentTigger' = currentTigger]_vars

C21_Witness ==
    /\ last.op = "_toOHTriggers"
    /\ last.self \in Things
    /\ confs[last.self].op_type = Str("updated")
    /\ Complete(confs[last.self])
    /\ ~last.raised
    /\ Len(last.val) = 1

\* C22: an Item/MemberOf or Thing conf whose kind is unset or not one of the
\* enumerated kinds makes _toOHTriggers() throw, with no trigger record
\* returned; an incomplete Channel or System conf converts without throwing.
C22_BadKindThrows ==
    /\ last.op = "_toOHTriggers" /\ last.self \in Items /\
       confs[last.self].op_type \notin {Str("changed"), Str("receivedCommand"), Str("receivedUpdate")} =>
          last.raised /\ last.val = <<>> /\ last.ret = Undefined
    /\ last.op = "_toOHTriggers" /\ last.self \in Things /\
       confs[last.self].op_type \notin {Str("changed"), Str("updated")} =>
          last.raised /\ last.val = <<>> /\ last.ret = Undefined
    /\ last.op = "_toOHTriggers" /\ last.self \in Channels \cup Systems /\
       ~Complete(confs[last.self]) =>
          ~last.raised /\ Len(last.val) = 1

C22_Witness ==
    /\ last.op = "_toOHTriggers"
    /\ last.self \in Items
    /\ confs[last.self].op_type = Undefined
    /\ confs[last.self].to_value = Str("ON")
    /\ last.raised
    /\ last.val = <<>>

\* the " from " and " to " markers of a description, in the order they appear
C23_Markers(text) == SelectSeq(text, LAMBDA t : t \in {" from ", " to "})

\* the markers of the values that are set, in the given order
C23_Expected(first, firstValue, second, secondValue) ==
    (IF Truthy(firstValue) THEN <<first>> ELSE <<>>) \o
    (IF Truthy(secondValue) THEN <<second>> ELSE <<>>)

\* C23: the verbose description of a Thing conf of kind 'changed' lists the
\* to-value before the from-value, that of an Item/MemberOf conf of kind
\* 'changed' lists the from-value before the to-value; the Thing conversion
\* passes (thingUID, to, from), the Item conversion passes (name, from, to).
C23_ThingToFromItemFromTo ==
    /\ last.op = "describe" /\ last.self \in Things /\ last.arg = <<Bool(FALSE)>> /\
       confs[last.self].op_type = Str("changed") =>
          LET c == confs[last.self]
          IN /\ ~last.raised
             /\ "changed" \in Range(last.val)
             /\ C23_Markers(last.val) = C23_Expected(" to ", c.to_value, " from ", c.from_value)
    /\ ItemDescribed("changed", FALSE) =>
          LET c == confs[last.self]
          IN /\ ~last.raised
             /\ "changed" \in Range(last.val)
             /\ C23_Markers(last.val) = C23_Expected(" from ", c.from_value, " to ", c.to_value)
    /\ last.op = "_toOHTriggers" /\ last.self \in Things /\
       confs[last.self].op_type = Str("changed") =>
          LET c == confs[last.self]
          IN ~last.raised /\ last.val[1].args = <<c.thingUID, c.to_value, c.from_value>>
    /\ last.op = "_toOHTriggers" /\ last.self \in Items /\
       confs[last.self].op_type = Str("changed") =>
          LET c == confs[last.self]
          IN ~last.raised /\ last.val[1].args = <<c.item_name, c.from_value, c.to_value>>

\* C24 as stated: on an Item/MemberOf or Thing conf a from-value that is set
\* implies the kind 'changed'.
C24_Original ==
    \A i \in Items \cup Things :
        confs[i].from_value # Undefined => confs[i].op_type = Str("changed")

\* C24 amended: the from-value of an Item/MemberOf or Thing conf is set only
\* by a from() call that finds the kind 'changed', so a conf with a
\* from-value has a kind; a later kind-setting call switches the kind and
\* keeps the from-value, which then coexists with the new kind.
C24_FromSetWhileChanged ==
    /\ [](\A i \in Items \cup Things :
            confs[i].from_value # Undefined => confs[i].op_type # Undefined)
    /\ [][\A i \in Items \cup Things :
            confs'[i].from_value # confs[i].from_value =>
                /\ last'.op = "from" /\ last'.self = i /\ ~last'.raised
                /\ confs[i].op_type = Str("changed")
                /\ confs'[i].op_type = Str("changed")]_vars
    /\ [][last'.op \in KindOps /\ confs[last'.self].from_value # Undefined =>
            /\ confs'[last'.self].from_value = confs[last'.self].from_value
            /\ confs'[last'.self].op_type = Str(last'.op)]_vars

C24_Witness ==
    /\ last.op = "updated"
    /\ prev.op = "from"
    /\ ~prev.raised
    /\ last.self \in Things
    /\ confs[last.self].op_type = Str("updated")
    /\ confs[last.self].from_value = Str("OFF")

\* C25 as stated: or(), then(fn) or if(fn) called on a conf appends that
\* very conf to the collection, also when a later starter call has replaced
\* it as the current one.
C25_Original ==
    last.op \in Terminals /\ ~last.raised =>
        /\ triggers # <<>>
        /\ triggers[Len(triggers)] = ConfRef(last.self)

\* C25 amended: or(), then(fn) or if(fn) called on a conf with a builder
\* appends the conf made by the latest starter call, which is the receiver
\* exactly when no starter call came after the one that made the receiver;
\* called on a conf without a builder it throws and appends nothing.
C25_RegistersLatestConf ==
    [][last'.op \in Terminals =>
          LET i == last'.self
              latest == Len(confs)
          IN IF TriggerConf_delegateThrows(confs[i])
             THEN last'.raised /\ triggers' = triggers
             ELSE /\ ~last'.raised
                  /\ triggers' = Append(triggers, ConfRef(latest))
                  /\ (triggers'[Len(triggers')] = ConfRef(i)) <=> (i = latest)]_vars

C25_Witness ==
    /\ last.op = "then"
    /\ ~last.raised
    /\ last.self = 1
    /\ Len(confs) = 2
    /\ made[2].by = "cron"
    /\ triggers # <<>>
    /\ triggers[Len(triggers)] = ConfRef(2)
    /\ ConfRef(1) \notin Range(triggers)

====
